---- MODULE Spec2Model ----
(***************************************************************************)
(* A model of bkit/milestoning.py: the TrajectoryDecomposer (anchors, cell *)
(* graph, merging of cells), the reduction of a discrete trajectory to a   *)
(* milestone schedule, and the accumulation of the estimator.              *)
(*                                                                         *)
(* Every operation is translated from its own body.  A Python exception    *)
(* is a value: an operation that raises leaves the state as the statements *)
(* executed before the raise left it, and records the exception in `exc`.  *)
(***************************************************************************)
EXTENDS Integers, Sequences, FiniteSets, TLC

\* ------------------------------------------------------------------ bounds
MaxAnchors == 4        \* number of anchor points given to the constructor
MaxGroups == 2         \* number of groups of a pre-partitioned anchor list
MaxCutoff == 1         \* finite cutoff distances are 1..MaxCutoff
MaxBox == 1            \* scalar box sizes are 0..MaxBox
MaxLabel == 2          \* cell labels of a discrete trajectory are 0..MaxLabel
MaxLen == 3            \* samples of a discrete trajectory
MaxDt == 2             \* sampling intervals are 1..MaxDt
MaxDist == 1           \* distances of a sample to its nearest anchor
MaxSamples == 2        \* samples of a trajectory given to decompose
MaxTrajs == 1          \* trajectories in a list given to decompose
MaxNSamples == 1       \* n_samples of the estimator is None or 1..MaxNSamples
MaxEstLabel == 1       \* cell labels in the schedules the estimator is given
MaxLifetime == 1       \* lifetimes in those schedules are 0..MaxLifetime
MaxEntries == 2        \* entries of such a schedule
MaxBatch == 1          \* schedules in one call of fit_from_schedules
MaxFits == 2           \* calls of fit_from_schedules
MaxStates == 3         \* states of a rate matrix
MaxMsLabel == 1        \* milestones of a model's list are 0..MaxMsLabel

\* ------------------------------------------------------- values of Python
\* The sentinel None, as a cell label, a boxsize and a milestone member.
None == -1
\* np.inf, the default cutoff: larger than every finite cutoff of the model.
Inf == 1000

VARIABLES
    alive,          \* TRUE once a TrajectoryDecomposer has been constructed
    _parent_cell,   \* self._parent_cell: anchor index -> cell label
    _graph,         \* self._graph: [nodes, edges], edges are sets {a, b}
    _kdtree,        \* self._kdtree: the number of points the tree indexes
    _cutoff,        \* self._cutoff
    call,           \* the last call made: its name and arguments
    exc,            \* the exception that call raised, or "none"
    ret,            \* the value that call returned
    pre,            \* _parent_cell and _graph as they were when call began
    est,            \* the MarkovianMilestoningEstimator: its attributes
    fitted,         \* every schedule handed to fit_from_schedules so far
    model,          \* the MarkovianMilestoningModel: its attributes
    model_pre       \* model as it was when call began

vars == <<alive, _parent_cell, _graph, _kdtree, _cutoff, call, exc, ret, pre,
          est, fitted, model, model_pre>>

decomposer == <<alive, _parent_cell, _graph, _kdtree, _cutoff>>

estimator == <<est, fitted>>

markov == <<model, model_pre>>

\* ------------------------------------------------------- graphs (networkx)
EmptyGraph == [nodes |-> {}, edges |-> {}]

\* nx.Graph.add_edges_from: the endpoints become nodes.
AddEdgesFrom(G, es) ==
    [nodes |-> G.nodes \cup UNION es, edges |-> G.edges \cup es]

\* A test that i and j are two cells, bordering or not (a variant of has_edge
\* to compare it with).
HasBothNodes(G, i, j) == i \in G.nodes /\ j \in G.nodes /\ i # j

\* nx.Graph.has_edge
HasEdge(G, i, j) == {i, j} \in G.edges

\* The chain (k, k+1) the constructor builds over one-dimensional anchors.
ChainEdges(n) == {{k, k + 1} : k \in 0..(n - 2)}

Degree(es, k) == Cardinality({e \in es : k \in e})

RECURSIVE Reach(_, _)
Reach(es, S) ==
    LET T == S \cup UNION {e \in es : e \cap S # {}}
    IN  IF T = S THEN S ELSE Reach(es, T)

\* The neighbour graphs spatial.Delaunay can return for n points in general
\* position in the plane: connected, every vertex on a triangle, between
\* 2n-3 and 3n-6 edges.  (For n = 3 the triangle, for n = 4 the complete
\* graph with or without one edge; beyond that a superset of the
\* triangulations.)
DelaunayEdgeSets(n) ==
    LET V == 0..(n - 1)
        AllEdges == {{k, l} : k, l \in V} \ {{k} : k \in V}
    IN  IF n < 3 THEN {}
        ELSE {es \in SUBSET AllEdges :
                /\ Cardinality(es) >= 2 * n - 3
                /\ Cardinality(es) <= (IF n = 3 THEN 3 ELSE 3 * n - 6)
                /\ \A k \in V : Degree(es, k) >= 2
                /\ Reach(es, {0}) = V}

\* nx.quotient_graph(G, partition, relabel=True): one node per block of the
\* equivalence, an edge between two distinct blocks joined by an edge of G,
\* and the blocks renamed lab[block] (networkx numbers the blocks in the
\* iteration order of a set of frozensets, which is not the order of the
\* cell labels).
Blocks(G, pc) == {{k \in G.nodes : pc[k] = pc[l]} : l \in G.nodes}

Relabellings(bs) ==
    {lab \in [bs -> 0..(Cardinality(bs) - 1)] :
        \A b, c \in bs : lab[b] = lab[c] => b = c}

QuotientGraph(G, pc, lab) ==
    LET bs == Blocks(G, pc)
    IN  [nodes |-> {lab[b] : b \in bs},
         edges |-> {{lab[bc[1]], lab[bc[2]]} : bc \in
                      {x \in bs \X bs :
                          /\ x[1] # x[2]
                          /\ \E k \in x[1], l \in x[2] : {k, l} \in G.edges}}]

\* nx.contracted_nodes(G, u, v, self_loops=False): v is removed and every
\* edge (v, w) becomes (u, w); an edge between u and v is dropped.
ContractedNodes(G, u, v) ==
    LET incident == {e \in G.edges : v \in e}
        other(e) == IF e = {v} THEN v ELSE CHOOSE w \in e : w # v
        new_edges == {{u, IF other(e) # v THEN other(e) ELSE u} :
                        e \in {d \in incident : other(d) # u}}
    IN  [nodes |-> G.nodes \ {v},
         edges |-> (G.edges \ incident) \cup new_edges]

\* ------------------------------------------------- the constructor's input
\* Anchors are given as one array (kind "ndarray") or as a list of arrays
\* (kind "list"); sizes are the lengths of the arrays, n_dim the dimension of
\* the points and tri the neighbour graph of their Delaunay triangulation
\* (used when n_dim > 1).
RECURSIVE SumSeq(_)
SumSeq(q) == IF q = <<>> THEN 0 ELSE Head(q) + SumSeq(Tail(q))

GroupSizes ==
    {q \in UNION {[1..m -> 1..MaxAnchors] : m \in 1..MaxGroups} :
        SumSeq(q) <= MaxAnchors}

AnchorInputs ==
    LET shapes == {[kind |-> "ndarray", sizes |-> <<n>>] : n \in 1..MaxAnchors}
                  \cup {[kind |-> "list", sizes |-> q] : q \in GroupSizes}
    IN  {[kind |-> s.kind, sizes |-> s.sizes, n_dim |-> 1, tri |-> {}] :
            s \in shapes}
        \cup UNION {{[kind |-> s.kind, sizes |-> s.sizes, n_dim |-> 2,
                      tri |-> es] : es \in DelaunayEdgeSets(SumSeq(s.sizes))} :
                    s \in shapes}

Cutoffs == (1..MaxCutoff) \cup {Inf}
BoxSizes == (0..MaxBox) \cup {None}

\* Python's truth value of a scalar boxsize: None and 0 are false.
Truthy(b) == b # None /\ b # 0

\* np.isfinite
IsFinite(c) == c # Inf

\* Lines 136-140: the anchor -> cell dictionary.  For a list of arrays the
\* comprehension keys each anchor by its index k inside its own array, and a
\* later array overwrites the entries of an earlier one.
ParentCellOf(a) ==
    IF a.kind = "ndarray"
    THEN [k \in 0..(a.sizes[1] - 1) |-> k]
    ELSE LET holds(k) == {i \in 1..Len(a.sizes) : k < a.sizes[i]}
             keys == {k \in 0..(MaxAnchors - 1) : holds(k) # {}}
         IN  [k \in keys |->
                 (CHOOSE i \in holds(k) : \A h \in holds(k) : h <= i) - 1]

\* Lines 144-151: the neighbour graph over the flattened anchors.
NeighbourGraph(a) ==
    LET n_anchors == SumSeq(a.sizes)
    IN  IF a.n_dim > 1
        THEN AddEdgesFrom(EmptyGraph, a.tri)
        ELSE AddEdgesFrom(EmptyGraph, ChainEdges(n_anchors))

\* ------------------------------------------------------------------- state
NoCall == [op |-> "none"]

\* What a call hands back: the exception it raised, or "none" and its value.
\* A value is a list, a reversed() iterator over a list, or None.
NoValue == [type |-> "NoneType", items |-> <<>>]
List(q) == [type |-> "list", items |-> q]
Raise(e) == [exc |-> e, value |-> NoValue]
Return(v) == [exc |-> "none", value |-> v]

\* No estimator has been constructed yet.
NoObject == [class |-> "NoneType"]

Snapshot == [parent_cell |-> _parent_cell, graph |-> _graph]

Init ==
    /\ alive = FALSE
    /\ _parent_cell = <<>>
    /\ _graph = EmptyGraph
    /\ _kdtree = 0
    /\ _cutoff = Inf
    /\ call = NoCall
    /\ exc = "none"
    /\ ret = NoValue
    /\ pre = [parent_cell |-> <<>>, graph |-> EmptyGraph]
    /\ est = NoObject
    /\ fitted = <<>>
    /\ model = NoObject
    /\ model_pre = NoObject

\* The exception TrajectoryDecomposer.__init__ raises on these arguments, or
\* "none" (lines 133-159).
InitRaises(a, c, b) ==
    IF Truthy(b) THEN "NotImplementedError"
    ELSE IF \E k \in NeighbourGraph(a).nodes : k \notin DOMAIN ParentCellOf(a)
         THEN "KeyError"
    ELSE IF IsFinite(c) THEN "AttributeError"
    ELSE "none"

\* TrajectoryDecomposer.__init__(anchors, cutoff, boxsize)
Construct ==
    /\ call = NoCall
    /\ \E a \in AnchorInputs, c \in Cutoffs, b \in BoxSizes :
         /\ call' = [op |-> "__init__", anchors |-> a, cutoff |-> c,
                     boxsize |-> b]
         /\ pre' = Snapshot
         /\ ret' = NoValue
         /\ exc' = InitRaises(a, c, b)
         /\ IF InitRaises(a, c, b) = "none"
            THEN /\ alive' = TRUE
                 /\ _parent_cell' = ParentCellOf(a)
                 /\ \E lab \in Relabellings(Blocks(NeighbourGraph(a),
                                                    ParentCellOf(a))) :
                      _graph' = QuotientGraph(NeighbourGraph(a),
                                              ParentCellOf(a), lab)
                 /\ _kdtree' = SumSeq(a.sizes)
                 /\ _cutoff' = c
            ELSE UNCHANGED <<alive, _parent_cell, _graph, _kdtree, _cutoff>>
    /\ UNCHANGED <<estimator, markov>>

\* TrajectoryDecomposer.milestones (line 172)
milestones == _graph.edges

\* The cell labels remove_milestone is called with: every label a cell can
\* have, and one no cell has.
CellArgs == 0..MaxAnchors

\* The update of lines 187-189 with i and j exchanged (a variant to compare
\* Reparent with).
ReparentReversed(pc, i, j) ==
    [k \in DOMAIN pc |-> IF pc[k] = i THEN j ELSE pc[k]]

\* Lines 187-189: every anchor of cell j becomes an anchor of cell i.
Reparent(pc, i, j) ==
    [k \in DOMAIN pc |-> IF pc[k] = j THEN i ELSE pc[k]]

\* TrajectoryDecomposer.remove_milestone(i, j) (lines 184-189)
RemoveMilestone ==
    /\ alive
    /\ \E i, j \in CellArgs :
         /\ call' = [op |-> "remove_milestone", i |-> i, j |-> j]
         /\ pre' = Snapshot
         /\ ret' = NoValue
         /\ IF ~HasEdge(_graph, i, j)
            THEN /\ exc' = "ValueError"
                 /\ UNCHANGED <<_parent_cell, _graph>>
            ELSE /\ exc' = "none"
                 /\ _graph' = ContractedNodes(_graph, i, j)
                 /\ _parent_cell' = Reparent(_parent_cell, i, j)
         /\ UNCHANGED <<alive, _kdtree, _cutoff>>
    /\ UNCHANGED <<estimator, markov>>



\* --------------------------------------------- dtraj_to_milestone_schedule
\* Line 256 reads the name forward_milestoning, which is neither a parameter
\* nor a local of the function, so Python looks it up among the module's
\* globals.  The module binds no such name (lines 1-5, 8, 55, 111, 232 bind
\* all it has): the value is "unbound".  ("True" and "False" are what the
\* lookup would give had the module bound it.)
forward_milestoning == "unbound"

\* frozenset({a, b})
Milestone(a, b) == {a, b}

\* Lines 258-264: the scan over zip(dtraj[:-1], dtraj[1:]), from the pair at
\* position t on; ms and lt are the lists milestones and lifetimes.
RECURSIVE Scan(_, _, _, _, _)
Scan(dtraj, dt, t, ms, lt) ==
    IF t >= Len(dtraj) THEN [milestones |-> ms, lifetimes |-> lt]
    ELSE LET i == dtraj[t]
             j == dtraj[t + 1]
             lt1 == [lt EXCEPT ![Len(lt)] = @ + dt]
         IN  IF j \notin ms[Len(ms)]
             THEN Scan(dtraj, dt, t + 1, Append(ms, Milestone(i, j)),
                       Append(lt1, 0))
             ELSE Scan(dtraj, dt, t + 1, ms, lt1)

\* Line 265: list(zip(milestones, lifetimes))
Zip(ms, lt) == [n \in 1..Len(ms) |-> <<ms[n], lt[n]>>]

Reversed(q) == [n \in 1..Len(q) |-> q[Len(q) + 1 - n]]

\* dtraj_to_milestone_schedule(dtraj, dt, forward), lines 256-268.  The
\* parameter forward is never read.  reversed(dtraj) is an iterator, which
\* line 258 cannot subscript; line 267 returns an iterator too.
dtraj_to_milestone_schedule(dtraj, dt, forward) ==
    IF forward_milestoning = "unbound" THEN Raise("NameError")
    ELSE IF forward_milestoning = "True" THEN Raise("TypeError")
    ELSE IF dtraj = <<>> THEN Raise("IndexError")
    ELSE LET r == Scan(dtraj, dt, 1, <<Milestone(None, dtraj[1])>>, <<0>>)
         IN  Return(List(Zip(r.milestones, r.lifetimes)))

\* The discrete trajectories the function is called with: every sequence of
\* at most MaxLen labels (None among them), and the trajectory of the
\* worked example.
Labels == (0..MaxLabel) \cup {None}

\* (the example of section 8 of the specification)
ExampleDtraj == <<0, 0, 1, 1, 2, 2, 1, 1, 0>>

DTrajs == UNION {[1..n -> Labels] : n \in 0..MaxLen} \cup {ExampleDtraj}

\* One call of the function.
Reduce ==
    /\ call = NoCall
    /\ \E dtraj \in DTrajs, dt \in 1..MaxDt, forward \in BOOLEAN :
         /\ call' = [op |-> "dtraj_to_milestone_schedule", dtraj |-> dtraj,
                     dt |-> dt, forward |-> forward]
         /\ exc' = dtraj_to_milestone_schedule(dtraj, dt, forward).exc
         /\ ret' = dtraj_to_milestone_schedule(dtraj, dt, forward).value
    /\ pre' = Snapshot
    /\ UNCHANGED <<decomposer, estimator, markov>>

\* ------------------------------------------------------------- decompose
\* A sample of a trajectory, as the nearest-neighbour search sees it: the
\* index of the anchor nearest to it and its distance to that anchor.
Samples == {[near |-> k, dist |-> d] : k \in 0..(_kdtree - 1), d \in 0..MaxDist}

Trajectories == UNION {[1..m -> Samples] : m \in 0..MaxSamples}

\* The argument trajs of decompose: one array, or a list of arrays.
TrajInputs ==
    {[kind |-> "ndarray", items |-> tr] : tr \in Trajectories}
    \cup {[kind |-> "list", items |-> q] :
            q \in UNION {[1..m -> Trajectories] : m \in 0..MaxTrajs}}

\* Line 227: cKDTree.query(traj, distance_upper_bound=self._cutoff) gives the
\* index of the nearest anchor, and the number of anchors for a sample that
\* has no anchor within the bound.
KdQuery(sample) ==
    IF sample.dist < _cutoff THEN sample.near ELSE _kdtree

\* Line 228: dtraj = [self._parent_cell[k] for k in ktraj]
CellLabels(traj) ==
    LET ktraj == [t \in 1..Len(traj) |-> KdQuery(traj[t])]
    IN  IF \E t \in 1..Len(traj) : ktraj[t] \notin DOMAIN _parent_cell
        THEN Raise("KeyError")
        ELSE Return(List([t \in 1..Len(traj) |-> _parent_cell[ktraj[t]]]))

\* TrajectoryDecomposer._traj_to_milestone_schedule (lines 226-229)
_traj_to_milestone_schedule(traj, dt, forward) ==
    IF CellLabels(traj).exc # "none" THEN CellLabels(traj)
    ELSE dtraj_to_milestone_schedule(CellLabels(traj).value.items, dt, forward)

\* TrajectoryDecomposer.decompose (lines 213-216): the list comprehension
\* stops at the first trajectory whose reduction raises.
decompose(trajs, dt, forward) ==
    LET list == IF trajs.kind = "ndarray" THEN <<trajs.items>> ELSE trajs.items
        r == [n \in 1..Len(list) |->
                 _traj_to_milestone_schedule(list[n], dt, forward)]
        bad == {n \in 1..Len(list) : r[n].exc # "none"}
    IN  IF bad # {}
        THEN Raise(r[CHOOSE n \in bad : \A m \in bad : n <= m].exc)
        ELSE Return(List([n \in 1..Len(list) |-> r[n].value]))

\* decompose changes nothing of the decomposer, so one decomposition in a
\* row shows all there is to see.
Decompose ==
    /\ alive
    /\ call.op # "decompose"
    /\ \E trajs \in TrajInputs, dt \in 1..MaxDt, forward \in BOOLEAN :
         /\ call' = [op |-> "decompose", trajs |-> trajs, dt |-> dt,
                     forward |-> forward]
         /\ exc' = decompose(trajs, dt, forward).exc
         /\ ret' = decompose(trajs, dt, forward).value
    /\ pre' = Snapshot
    /\ UNCHANGED <<decomposer, estimator, markov>>

\* ----------------------------------------- MarkovianMilestoningEstimator
\* getattr: an attribute the object does not have raises AttributeError.
HasAttr(self, name) == name \in DOMAIN self

\* MarkovianMilestoningEstimator.__init__ (lines 72-73) sets two attributes
\* and no other.
EstimatorInit ==
    /\ est = NoObject
    /\ \E reversible \in BOOLEAN, n_samples \in (1..MaxNSamples) \cup {None} :
         /\ call' = [op |-> "Estimator.__init__", reversible |-> reversible,
                     n_samples |-> n_samples]
         /\ est' = [class |-> "MarkovianMilestoningEstimator",
                    reversible |-> reversible, n_samples |-> n_samples]
    /\ exc' = "none"
    /\ ret' = NoValue
    /\ UNCHANGED <<decomposer, pre, fitted, markov>>

\* zip(schedule[:-1], schedule[1:]) over every schedule, in order.
RECURSIVE Concat(_)
Concat(qs) == IF qs = <<>> THEN <<>> ELSE Head(qs) \o Concat(Tail(qs))

PairsOf(schedule) ==
    IF Len(schedule) < 2 THEN <<>>
    ELSE [n \in 1..(Len(schedule) - 1) |-> <<schedule[n], schedule[n + 1]>>]

AllPairs(schedules) ==
    Concat([n \in 1..Len(schedules) |-> PairsOf(schedules[n])])

\* Lines 102-107, from pair n on.  self._ix maps a milestone to its index,
\* self._count_matrix and self._total_times are indexed by those.
RECURSIVE Accumulate(_, _, _)
Accumulate(self, pairs, n) ==
    IF n > Len(pairs) THEN [exc |-> "none", self |-> self]
    ELSE LET a == pairs[n][1][1]
             t == pairs[n][1][2]
             b == pairs[n][2][1]
         IN  IF ~HasAttr(self, "_ix")
             THEN [exc |-> "AttributeError", self |-> self]
             ELSE IF a \notin DOMAIN self._ix \/ b \notin DOMAIN self._ix
             THEN Accumulate(self, pairs, n + 1)
             ELSE IF ~HasAttr(self, "_count_matrix")
             THEN [exc |-> "AttributeError", self |-> self]
             ELSE LET counted ==
                         [self EXCEPT
                            !._count_matrix[<<self._ix[a], self._ix[b]>>] = @ + 1]
                  IN  IF ~HasAttr(self, "_total_times")
                      THEN [exc |-> "AttributeError", self |-> counted]
                      ELSE Accumulate(
                             [counted EXCEPT !._total_times[self._ix[a]] = @ + t],
                             pairs, n + 1)

\* fit_from_schedules(schedules), lines 102-108
fit_from_schedules(self, schedules) ==
    LET r == Accumulate(self, AllPairs(schedules), 1)
    IN  IF r.exc # "none" THEN r
        ELSE IF ~HasAttr(r.self, "_schedules")
        THEN [exc |-> "AttributeError", self |-> r.self]
        ELSE [exc |-> "none",
              self |-> [r.self EXCEPT !._schedules = @ \o schedules]]

\* The schedules the estimator is given: lists of (milestone, lifetime).
EstMilestones == {{a, b} : a, b \in (0..MaxEstLabel) \cup {None}}

Entries == {<<m, t>> : m \in EstMilestones, t \in 0..MaxLifetime}

Schedules == UNION {[1..n -> Entries] : n \in 0..MaxEntries}

Batches == UNION {[1..n -> Schedules] : n \in 0..MaxBatch}

FitFromSchedules ==
    /\ est # NoObject
    /\ Len(fitted) < MaxFits * MaxBatch
    /\ \E schedules \in Batches :
         /\ call' = [op |-> "fit_from_schedules", schedules |-> schedules]
         /\ exc' = fit_from_schedules(est, schedules).exc
         /\ est' = fit_from_schedules(est, schedules).self
         /\ fitted' = fitted \o schedules
    /\ ret' = NoValue
    /\ UNCHANGED <<decomposer, pre, markov>>

\* MarkovianMilestoningEstimator.fetch_model() (lines 75-82): the body is a
\* docstring and nothing else, so the call reads no attribute, raises nothing
\* and returns None.
FetchModel ==
    /\ est # NoObject
    /\ call' = [op |-> "fetch_model"]
    /\ exc' = "none"
    /\ ret' = NoValue
    /\ UNCHANGED <<decomposer, pre, estimator, markov>>

\* ------------------------------------------------ MarkovianMilestoningModel
\* A rate matrix, by its shape: an (M, M) array.
RateMatrices == {[shape |-> <<n, n>>] : n \in 1..MaxStates}

\* The lists a model's milestones are set to: shorter than, as long as and
\* longer than the rate matrix has states.
MilestoneLists ==
    UNION {[1..n -> 0..MaxMsLabel] : n \in 0..(MaxStates + 1)}

\* bkit.markov.ContinuousTimeMarkovModel.__init__(rate_matrix): the base
\* class keeps the rate matrix.
ContinuousTimeMarkovModel(rate_matrix) ==
    [class |-> "MarkovianMilestoningModel", rate_matrix |-> rate_matrix]

\* bkit.markov.ContinuousTimeMarkovModel.n_states: the dimension of the rate
\* matrix.
n_states(self) == self.rate_matrix.shape[1]

\* self.name = value
SetAttr(self, name, value) ==
    [a \in DOMAIN self \cup {name} |-> IF a = name THEN value ELSE self[a]]

\* A setter that rejects a list shorter than the rate matrix has states and
\* cuts a longer one to that number (a variant to compare milestones_setter
\* with).
milestones_setter_truncating(self, value) ==
    IF Len(value) < n_states(self)
    THEN [exc |-> "ValueError", self |-> self]
    ELSE [exc |-> "none",
          self |-> SetAttr(self, "_milestones",
                           SubSeq(value, 1, n_states(self)))]

\* The setter of MarkovianMilestoningModel.milestones (lines 32-37).
milestones_setter(self, value) ==
    IF Len(value) # n_states(self)
    THEN [exc |-> "ValueError", self |-> self]
    ELSE [exc |-> "none", self |-> SetAttr(self, "_milestones", value)]

\* The getter of MarkovianMilestoningModel.milestones (lines 27-30).
milestones_getter(self) == self._milestones

\* MarkovianMilestoningModel.__init__(rate_matrix, milestones), lines 24-25.
\* A constructor that raises hands back no object.
MarkovianMilestoningModel(rate_matrix, value) ==
    LET r == milestones_setter(ContinuousTimeMarkovModel(rate_matrix), value)
    IN  IF r.exc # "none" THEN [exc |-> r.exc, self |-> NoObject] ELSE r

\* model = MarkovianMilestoningModel(rate_matrix, milestones)
ModelInit ==
    /\ model = NoObject
    /\ \E rate_matrix \in RateMatrices, value \in MilestoneLists :
         /\ call' = [op |-> "Model.__init__", rate_matrix |-> rate_matrix,
                     value |-> value]
         /\ exc' = MarkovianMilestoningModel(rate_matrix, value).exc
         /\ model' = MarkovianMilestoningModel(rate_matrix, value).self
    /\ model_pre' = model
    /\ ret' = NoValue
    /\ UNCHANGED <<decomposer, pre, estimator>>

\* model.milestones = value
SetMilestones ==
    /\ model # NoObject
    /\ \E value \in MilestoneLists :
         /\ call' = [op |-> "milestones.setter", value |-> value]
         /\ exc' = milestones_setter(model, value).exc
         /\ model' = milestones_setter(model, value).self
    /\ model_pre' = model
    /\ ret' = NoValue
    /\ UNCHANGED <<decomposer, pre, estimator>>

\* --------------------------------------------------------- specifications
\* The decomposer: its construction and the merging of its cells.
Next == Construct \/ RemoveMilestone

Spec == Init /\ [][Next]_vars

\* The decomposer with the decomposition of trajectories.
NextDecompose == Construct \/ RemoveMilestone \/ Decompose

SpecDecompose == Init /\ [][NextDecompose]_vars

\* The estimator: its construction and the ingestion of schedules.
NextEstimator == EstimatorInit \/ FitFromSchedules \/ FetchModel

SpecEstimator == Init /\ [][NextEstimator]_vars

\* The reduction of a discrete trajectory, a pure function.
NextReduce == Reduce

SpecReduce == Init /\ [][NextReduce]_vars

\* The milestoning model: its construction and the setting of its milestones.
NextModel == ModelInit \/ SetMilestones

SpecModel == Init /\ [][NextModel]_vars

\* ------------------------------------------------------------------ claims
Removed == call.op = "remove_milestone"

\* C5: when remove_milestone(i, j) is called and a milestone between i and j
\* exists, the call succeeds; afterwards j is no node of the cell graph, every
\* anchor that mapped to i or j maps to i and no other anchor's cell changed,
\* and for every third cell k the milestone {i, k} exists exactly when {i, k}
\* or {j, k} existed before; {i, i} is no milestone.  (Milestones are the
\* edges of a simple graph, so none is listed twice.)
C5_MergeSemantics ==
    (Removed /\ {call.i, call.j} \in pre.graph.edges) =>
        /\ exc = "none"
        /\ call.j \notin _graph.nodes
        /\ call.i \in _graph.nodes
        /\ DOMAIN _parent_cell = DOMAIN pre.parent_cell
        /\ \A k \in DOMAIN pre.parent_cell :
              _parent_cell[k] = IF pre.parent_cell[k] \in {call.i, call.j}
                                THEN call.i
                                ELSE pre.parent_cell[k]
        /\ \A k \in (pre.graph.nodes \cup CellArgs) \ {call.i, call.j} :
              ({call.i, k} \in milestones) <=>
                  ({call.i, k} \in pre.graph.edges
                      \/ {call.j, k} \in pre.graph.edges)
        /\ {call.i} \notin milestones
        /\ \A e \in milestones : Cardinality(e) = 2

\* A merge in which one neighbour of j was no neighbour of i, another was a
\* neighbour of both, and some anchor moved from j to i.
C5_Witness ==
    /\ Removed
    /\ exc = "none"
    /\ \E k \in pre.graph.nodes \ {call.i, call.j} :
          /\ {call.j, k} \in pre.graph.edges
          /\ {call.i, k} \notin pre.graph.edges
          /\ {call.i, k} \in milestones
    /\ \E k \in pre.graph.nodes \ {call.i, call.j} :
          /\ {call.j, k} \in pre.graph.edges
          /\ {call.i, k} \in pre.graph.edges
    /\ \E k \in DOMAIN _parent_cell :
          pre.parent_cell[k] = call.j /\ _parent_cell[k] = call.i

\* C6: remove_milestone(i, j) called when the cell graph has no edge between
\* i and j raises an error and leaves the edge set, the node set and the
\* anchor-to-cell mapping as they were.
C6_NoMilestoneNoChange ==
    (Removed /\ {call.i, call.j} \notin pre.graph.edges) =>
        /\ exc = "ValueError"
        /\ _graph.edges = pre.graph.edges
        /\ _graph.nodes = pre.graph.nodes
        /\ _parent_cell = pre.parent_cell

\* The refused call named two cells of the graph that do not border.
C6_Witness ==
    /\ Removed
    /\ exc = "ValueError"
    /\ call.i # call.j
    /\ {call.i, call.j} \subseteq _graph.nodes
    /\ _graph.edges # {}

Reduced == call.op = "dtraj_to_milestone_schedule"

\* The milestone and the lifetime of entry n of a schedule.
MilestoneAt(schedule, n) == schedule[n][1]
LifetimeAt(schedule, n) == schedule[n][2]

\* The entry of a schedule that is current after sample t of dtraj, counting
\* a new entry whenever the sample is no label of the current milestone.
RECURSIVE Cur(_, _, _)
Cur(schedule, dtraj, t) ==
    IF t = 1 THEN 1
    ELSE LET c == Cur(schedule, dtraj, t - 1)
         IN  IF c > Len(schedule) THEN c
             ELSE IF dtraj[t] \in MilestoneAt(schedule, c) THEN c ELSE c + 1

\* C1: for a non-empty discrete trajectory and forward = False the call
\* returns a schedule whose first milestone is {None, dtraj[0]}; scanning the
\* samples, a new entry {i, j} begins exactly at a sample j that is no label
\* of the current milestone, and every step adds dt to the lifetime of the
\* entry current before it.
C1_CrossingRule ==
    (Reduced /\ call.dtraj # <<>> /\ ~call.forward) =>
        /\ exc = "none"
        /\ ret.type = "list"
        /\ LET d == call.dtraj
               sch == ret.items
           IN  /\ Len(sch) = Cur(sch, d, Len(d))
               /\ MilestoneAt(sch, 1) = {None, d[1]}
               /\ \A t \in 2..Len(d) :
                     Cur(sch, d, t) # Cur(sch, d, t - 1) =>
                         MilestoneAt(sch, Cur(sch, d, t)) = {d[t - 1], d[t]}
               /\ \A n \in 1..Len(sch) :
                     LifetimeAt(sch, n) =
                         call.dt * Cardinality({t \in 1..(Len(d) - 1) :
                                                  Cur(sch, d, t) = n})

\* C2: for dtraj = [0,0,1,1,2,2,1,1,0], dt = 1 and forward = False the call
\* returns the five entries ({None,0},2), ({0,1},2), ({1,2},2), ({2,1},2),
\* ({1,0},1).
C2_WorkedExample ==
    (Reduced /\ call.dtraj = ExampleDtraj /\ call.dt = 1 /\ ~call.forward) =>
        /\ exc = "none"
        /\ ret.items = << <<{None, 0}, 2>>, <<{0, 1}, 2>>, <<{1, 2}, 2>>,
                          <<{2, 1}, 2>>, <<{1, 0}, 1>> >>

\* C3: for every non-empty trajectory the call returns a schedule in which
\* any two consecutive milestones share exactly one cell label.
C3_Adjacency ==
    (Reduced /\ call.dtraj # <<>>) =>
        /\ exc = "none"
        /\ \A n \in 1..(Len(ret.items) - 1) :
              Cardinality(MilestoneAt(ret.items, n)
                              \cap MilestoneAt(ret.items, n + 1)) = 1

\* C4: for a non-empty trajectory d, the call with forward = True returns the
\* reverse of what the call with forward = False returns for reversed(d),
\* and its last milestone is {d[-1], None}.
C4_ForwardIsReversal ==
    (Reduced /\ call.dtraj # <<>> /\ call.forward) =>
        LET backward == dtraj_to_milestone_schedule(Reversed(call.dtraj),
                                                    call.dt, FALSE)
        IN  /\ exc = "none"
            /\ backward.exc = "none"
            /\ ret.items = Reversed(backward.value.items)
            /\ MilestoneAt(ret.items, Len(ret.items)) =
                   {call.dtraj[Len(call.dtraj)], None}

\* The trajectories a decompose call was given.
TrajsOf(c) == IF c.trajs.kind = "ndarray" THEN <<c.trajs.items>> ELSE c.trajs.items

\* C7: every decomposition of non-empty trajectories succeeds, and every
\* label of every schedule it returns is None or a cell that is a node of
\* the cell graph at that time (so never a cell merged away by an earlier
\* remove_milestone).
C7_DecompositionReflectsMerges ==
    (/\ call.op = "decompose"
     /\ TrajsOf(call) # <<>>
     /\ \A n \in 1..Len(TrajsOf(call)) : TrajsOf(call)[n] # <<>>) =>
        /\ exc = "none"
        /\ \A n \in 1..Len(ret.items) :
              \A m \in 1..Len(ret.items[n].items) :
                 MilestoneAt(ret.items[n].items, m)
                     \subseteq _graph.nodes \cup {None}

\* The group (counted from 0) that anchor k of the concatenated groups came
\* from.
GroupOf(sizes, k) ==
    (CHOOSE g \in 1..Len(sizes) :
        /\ k < SumSeq(SubSeq(sizes, 1, g))
        /\ k >= SumSeq(SubSeq(sizes, 1, g - 1))) - 1

\* C8: a decomposer constructed from a list of anchor groups (no box, no
\* cutoff) maps every anchor of the concatenated groups to the index of the
\* group it came from.
C8_GroupsBecomeCells ==
    (/\ call.op = "__init__"
     /\ call.anchors.kind = "list"
     /\ ~Truthy(call.boxsize)
     /\ ~IsFinite(call.cutoff)) =>
        /\ exc = "none"
        /\ DOMAIN _parent_cell = 0..(SumSeq(call.anchors.sizes) - 1)
        /\ \A k \in DOMAIN _parent_cell :
              _parent_cell[k] = GroupOf(call.anchors.sizes, k)

\* C9: a decomposer can be constructed with a finite cutoff, and a
\* decomposition labels a sample farther from its nearest anchor than the
\* cutoff None, and a sample nearer than the cutoff with the cell of its
\* nearest anchor.
C9_CutoffSentinel ==
    /\ (/\ call.op = "__init__"
        /\ call.anchors.kind = "ndarray"
        /\ ~Truthy(call.boxsize)
        /\ IsFinite(call.cutoff)) => (exc = "none" /\ alive)
    /\ call.op = "decompose" =>
          LET list == TrajsOf(call)
          IN  \A n \in 1..Len(list) :
                 /\ CellLabels(list[n]).exc = "none"
                 /\ \A t \in 1..Len(list[n]) :
                       LET x == list[n][t]
                           label == CellLabels(list[n]).value.items[t]
                       IN  /\ x.dist > _cutoff => label = None
                           /\ x.dist < _cutoff =>
                                 label = _parent_cell[x.near]

\* The consecutive pairs (a, t) -> (b, _) of the schedules in which both a
\* and b are in the index ix.
RecognizedPairs(schedules, ix) ==
    LET P == AllPairs(schedules)
    IN  {n \in 1..Len(P) : P[n][1][1] \in DOMAIN ix /\ P[n][2][1] \in DOMAIN ix}

RECURSIVE SumOver(_, _)
SumOver(P, S) ==
    IF S = {} THEN 0
    ELSE LET n == CHOOSE x \in S : TRUE
         IN  P[n][1][2] + SumOver(P, S \ {n})

\* C10: after every call of fit_from_schedules on schedules that have a
\* consecutive pair of entries, count(a, b) is the number of
\* recognized consecutive pairs a -> b over all schedules given so far, and
\* total_time(a) is the sum of the lifetimes of the recognized pairs that
\* leave a: what one call on the concatenation of the batches gives.
C10_BatchIndependent ==
    (/\ call.op = "fit_from_schedules"
     /\ AllPairs(call.schedules) # <<>>) =>
        /\ exc = "none"
        /\ HasAttr(est, "_ix")
        /\ HasAttr(est, "_count_matrix")
        /\ HasAttr(est, "_total_times")
        /\ LET P == AllPairs(fitted)
               R == RecognizedPairs(fitted, est._ix)
           IN  /\ \A a, b \in DOMAIN est._ix :
                     est._count_matrix[<<est._ix[a], est._ix[b]>>] =
                        Cardinality({n \in R : P[n][1][1] = a /\ P[n][2][1] = b})
               /\ \A a \in DOMAIN est._ix :
                     est._total_times[est._ix[a]] =
                        SumOver(P, {n \in R : P[n][1][1] = a})

\* The lifetimes of the first n entries of a schedule, summed.
RECURSIVE LifetimeSum(_, _)
LifetimeSum(schedule, n) ==
    IF n = 0 THEN 0 ELSE LifetimeAt(schedule, n) + LifetimeSum(schedule, n - 1)

\* The entry of a schedule that covers the time of sample t (samples counted
\* from 1, dt apart): the first entry that ends after that time, and the
\* last entry for a time no entry ends after.
Covering(schedule, dt, t) ==
    LET later == {n \in 1..Len(schedule) :
                     (t - 1) * dt < LifetimeSum(schedule, n)}
    IN  IF later = {} THEN Len(schedule)
        ELSE CHOOSE n \in later : \A m \in later : n <= m

\* C12: for a non-empty discrete trajectory and forward = False the call
\* returns a schedule, and every sample dtraj[t] is a label of the milestone
\* of the entry that covers the time of sample t.
C12_RoundTripMembership ==
    (Reduced /\ call.dtraj # <<>> /\ ~call.forward) =>
        /\ exc = "none"
        /\ ret.items # <<>>
        /\ \A t \in 1..Len(call.dtraj) :
              call.dtraj[t] \in
                  MilestoneAt(ret.items, Covering(ret.items, call.dt, t))

\* C13: a discrete trajectory of one sample c reduces, for any dt, to the one
\* entry ({None, c}, 0).
C13_SingleSample ==
    (Reduced /\ Len(call.dtraj) = 1) =>
        /\ exc = "none"
        /\ ret.items = << <<{None, call.dtraj[1]}, 0>> >>

\* C14: an empty discrete trajectory does not fail: the call returns a
\* schedule of exactly one entry.
C14_EmptyTrajectory ==
    (Reduced /\ call.dtraj = <<>>) =>
        /\ exc = "none"
        /\ Len(ret.items) = 1

\* C18: for a discrete trajectory of T >= 1 samples the call returns a
\* schedule whose lifetimes sum to (T - 1) * dt.
C18_TimeConservation ==
    (Reduced /\ call.dtraj # <<>>) =>
        /\ exc = "none"
        /\ ret.items # <<>>
        /\ LifetimeSum(ret.items, Len(ret.items)) =
               (Len(call.dtraj) - 1) * call.dt

\* C19: every entry but the last of a backward schedule has a lifetime of at
\* least dt, so that a state counted as left has a positive total time.
C19_PositiveResidence ==
    (Reduced /\ call.dtraj # <<>> /\ ~call.forward) =>
        /\ exc = "none"
        /\ ret.items # <<>>
        /\ \A n \in 1..(Len(ret.items) - 1) :
              LifetimeAt(ret.items, n) >= call.dt

\* The entries of the function f over the set S of its arguments, summed.
RECURSIVE SumFn(_, _)
SumFn(f, S) ==
    IF S = {} THEN 0
    ELSE LET x == CHOOSE y \in S : TRUE
         IN  f[x] + SumFn(f, S \ {x})

\* The consecutive pairs of the schedules in which a milestone contains None.
SentinelPairs(schedules) ==
    LET P == AllPairs(schedules)
    IN  {n \in 1..Len(P) : None \in P[n][1][1] \/ None \in P[n][2][1]}

\* C11: a call of fit_from_schedules on schedules with a consecutive pair in
\* which a milestone contains None raises nothing, and the pairs with a
\* milestone outside the index add nothing: the counts sum to the number of
\* recognized pairs given so far and the total times to their lifetimes.
C11_UnrecognizedSkipped ==
    (/\ call.op = "fit_from_schedules"
     /\ SentinelPairs(call.schedules) # {}) =>
        /\ exc = "none"
        /\ HasAttr(est, "_ix")
        /\ HasAttr(est, "_count_matrix")
        /\ HasAttr(est, "_total_times")
        /\ LET P == AllPairs(fitted)
               R == RecognizedPairs(fitted, est._ix)
           IN  /\ SumFn(est._count_matrix, DOMAIN est._count_matrix) =
                     Cardinality(R)
               /\ SumFn(est._total_times, DOMAIN est._total_times) =
                     SumOver(P, R)

\* C16: fetch_model on an estimator in which some state has no accumulated
\* total time (an estimator that has accumulated nothing among them) raises
\* an exception.
C16_ZeroTimeFails ==
    (/\ call.op = "fetch_model"
     /\ \/ ~HasAttr(est, "_total_times")
        \/ \E a \in DOMAIN est._total_times : est._total_times[a] = 0) =>
        exc # "none"

\* C17: a constructor call with a boxsize other than None raises
\* NotImplementedError and constructs nothing.
C17_BoxsizeRejected ==
    (call.op = "__init__" /\ call.boxsize # None) =>
        /\ exc = "NotImplementedError"
        /\ ~alive
        /\ _graph = EmptyGraph
        /\ _kdtree = 0

\* C20: in a constructed decomposer every cell label an anchor maps to is a
\* node of the cell graph, every milestone is a set of two nodes of the cell
\* graph, and a remove_milestone call that raises nothing leaves one node
\* fewer than it found.
C20_CellGraphConsistent ==
    alive =>
        /\ \A k \in DOMAIN _parent_cell : _parent_cell[k] \in _graph.nodes
        /\ \A m \in milestones :
              Cardinality(m) = 2 /\ m \subseteq _graph.nodes
        /\ (Removed /\ exc = "none") =>
              Cardinality(_graph.nodes) = Cardinality(pre.graph.nodes) - 1

\* C15: a construction or an assignment of milestones with a list whose length
\* is not the number of states of the rate matrix raises ValueError and leaves
\* the model, its stored list included, as it was; with a list of that length
\* it raises nothing and the model then holds that very list.
C15_LengthValidated ==
    /\ call.op = "Model.__init__" =>
          IF Len(call.value) # call.rate_matrix.shape[1]
          THEN exc = "ValueError" /\ model = NoObject
          ELSE /\ exc = "none"
               /\ model # NoObject
               /\ model.rate_matrix = call.rate_matrix
               /\ milestones_getter(model) = call.value
    /\ call.op = "milestones.setter" =>
          IF Len(call.value) # model_pre.rate_matrix.shape[1]
          THEN exc = "ValueError" /\ model = model_pre
          ELSE /\ exc = "none"
               /\ model.rate_matrix = model_pre.rate_matrix
               /\ milestones_getter(model) = call.value

\* A model holds a list, and an assignment of a longer and different list
\* has been refused.
C15_Witness ==
    /\ call.op = "milestones.setter"
    /\ exc = "ValueError"
    /\ Len(call.value) > Len(milestones_getter(model))
    /\ SubSeq(call.value, 1, Len(milestones_getter(model))) #
           milestones_getter(model)
====
